---- MODULE Spec2Model ----
(***************************************************************************)
(* Model of the similarity-search pipeline of streamlit_app.py: one script *)
(* run of main() resolves the query through Scryfall, looks the card up in *)
(* the corpus, normalizes its embedding row in place, queries the index,   *)
(* filters the candidates by score, identity and colour, and reports one   *)
(* outcome.                                                                *)
(*                                                                         *)
(* Numbers are fixed point.  Similarity scores are in tenths (0.4 is 4).   *)
(* Embedding entries are in fifths (UnitLen), and the rows of the dataset  *)
(* are chosen so that their Euclidean norm is a whole number of fifths:    *)
(* normalization is exact on them.                                         *)
(***************************************************************************)
EXTENDS Integers, Sequences, FiniteSets

VARIABLES
    pc,               \* position of the script run inside main()
    cards,            \* the corpus returned by load_data() for this run
    cache,            \* what st.cache_data holds for load_data()
    embeddings,       \* the matrix returned by load_data() for this run
    selected_colors,  \* colours whose checkbox is ticked
    resolved_card,    \* None ({}) or {card}: second value of the resolver
    query_vec,        \* the normalized query vector, <<>> before line 143
    candidates,       \* zip(scores[0], I[0]) of index.search
    scored,           \* results after the comprehension of lines 151-155
    results,          \* results after the colour pass of lines 163-164
    outcome,          \* what the run reported to the user
    row_lookups,      \* times line 142 was reached in this run
    index_queries     \* times line 150 was reached in this run

vars == <<pc, cards, cache, embeddings, selected_colors, resolved_card,
          query_vec, candidates, scored, results, outcome, row_lookups,
          index_queries>>

----------------------------------------------------------------------------
(* Bounds of the model *)

\* longest corpus
MaxCards == 3

\* length of the list index.search returns (the code asks for 200)
MaxK == 2

----------------------------------------------------------------------------
(* Program constants and numeric encodings *)

\* SIMILARITY_THRESHOLD = 0.4, in tenths
SIMILARITY_THRESHOLD == 4

\* length of a unit vector in the fixed-point unit of the embedding entries
UnitLen == 5

\* the float NaN that 0.0 / 0.0 yields; it compares false with everything
NaN == 99

\* the score faiss pairs with the label -1 when it has no neighbour to report
NegFltMax == -1000

color_options == <<"W", "U", "B", "R", "G", "C">>

ColorSet == {color_options[i] : i \in DOMAIN color_options}

----------------------------------------------------------------------------
(* Python values *)

None == {}

Some(v) == {v}

\* not x, for x None or a dict
Falsy(opt) == opt = None \/ \A d \in opt : DOMAIN d = {}

\* d.get(k): None when the key is absent
Get(d, k) == IF k \in DOMAIN d THEN Some(d[k]) ELSE None

\* d.get("color_identity", [])
Identity(card) ==
    IF "color_identity" \in DOMAIN card THEN card.color_identity ELSE {}

Ok(v) == [tag |-> "ok", value |-> v]

Raised(e) == [tag |-> "raised", value |-> e]

----------------------------------------------------------------------------
(* The dataset: cards.json and embeddings_trimmed.npy, row aligned *)

Catalogue ==
    [id \in 1..4 |->
        CASE id = 1 -> [card |-> [id |-> 1, color_identity |-> {"U"}],
                        row  |-> <<3, 4>>]
          [] id = 2 -> [card |-> [id |-> 2, color_identity |-> {}],
                        row  |-> <<6, 8>>]
          [] id = 3 -> [card |-> [id |-> 3, color_identity |-> {"R"}],
                        row  |-> <<0, 0>>]
          [] id = 4 -> [card |-> [id |-> 4, color_identity |-> {"U", "R"}],
                        row  |-> <<5, 0>>]]

\* the corpora: sequences of distinct catalogue ids, at most MaxCards long
Corpora ==
    UNION {{s \in [1..n -> DOMAIN Catalogue] :
                \A i, j \in 1..n : i # j => s[i] # s[j]} : n \in 0..MaxCards}

Dataset(ids) ==
    [cards      |-> [i \in DOMAIN ids |-> Catalogue[ids[i]].card],
     embeddings |-> [i \in DOMAIN ids |-> Catalogue[ids[i]].row]]

----------------------------------------------------------------------------
(* Scryfall: what requests.get(...named?fuzzy=...) can answer *)

Payloads ==
    {[id |-> i] : i \in DOMAIN Catalogue}
        \cup {[object |-> "card"]}      \* a payload without an id
        \cup {<<>>}                     \* an empty JSON object

Responses ==
    [status_code : {200}, json : Payloads]
        \cup [status_code : {404}, json : {<<>>}]
        \cup {[status_code |-> 0, json |-> <<>>]}   \* requests.get raised

\* second value of try_get_card_text_from_name
try_get_card_text_from_name(res) ==
    IF res.status_code = 200 THEN Some(res.json) ELSE None

----------------------------------------------------------------------------
(* Row lookup and normalization, lines 142-144 *)

Card(opt) == CHOOSE c \in opt : TRUE

\* row_of with next(..., 0): a card without a row takes row 0
row_of_default(cs, card) ==
    IF cs = <<>> THEN Raised("StopIteration")
    ELSE IF "id" \notin DOMAIN card THEN Raised("KeyError")
    ELSE IF \E i \in DOMAIN cs : cs[i].id = card.id
         THEN Ok((CHOOSE i \in DOMAIN cs :
                    /\ cs[i].id = card.id
                    /\ \A j \in DOMAIN cs : cs[j].id = card.id => i <= j) - 1)
         ELSE Ok(0)

\* next(i for i, c in enumerate(cards) if c["id"] == resolved_card["id"])
row_of(cs, card) ==
    IF cs = <<>> THEN Raised("StopIteration")
    ELSE IF "id" \notin DOMAIN card THEN Raised("KeyError")
    ELSE IF \E i \in DOMAIN cs : cs[i].id = card.id
         THEN Ok((CHOOSE i \in DOMAIN cs :
                    /\ cs[i].id = card.id
                    /\ \A j \in DOMAIN cs : cs[j].id = card.id => i <= j) - 1)
         ELSE Raised("StopIteration")

Abs(x) == IF x < 0 THEN -x ELSE x

\* np.linalg.norm
Norm(v) ==
    LET sq == v[1] * v[1] + v[2] * v[2]
    IN  CHOOSE r \in 0..(Abs(v[1]) + Abs(v[2])) : r * r = sq

\* query_vec /= np.linalg.norm(query_vec)
Normalize(v) ==
    IF Norm(v) = 0 THEN [i \in DOMAIN v |-> NaN]
    ELSE [i \in DOMAIN v |-> (v[i] * UnitLen) \div Norm(v)]

IsNaNVec(v) == \E i \in DOMAIN v : v[i] = NaN

\* the matrix after the in-place division: query_vec is a view of row ref
DivideInPlace(m, ref) == [m EXCEPT ![ref + 1] = Normalize(m[ref + 1])]

----------------------------------------------------------------------------
(* index.search(query_vec, 200), line 150 *)

ScoreValues == {3, 4, 5}

\* the positions the index can name: the rows of the corpus and, when the
\* index file holds more vectors than the corpus has cards, one past the end
Positions(cs) == 0..Len(cs)

Pad == [score |-> NegFltMax, idx |-> -1]

Distinct(l) ==
    \A i, j \in DOMAIN l : (i # j /\ l[i] # Pad /\ l[j] # Pad) => l[i].idx # l[j].idx

\* ranked lists: scores descend, the unfilled tail is padding
RankedLists(cs) ==
    {l \in [1..MaxK -> [score : ScoreValues, idx : Positions(cs)] \cup {Pad}] :
        /\ \A i \in 1..(MaxK - 1) : l[i].score >= l[i + 1].score
        /\ Distinct(l)}

\* with a NaN query every inner product is NaN: the index reports nothing,
\* or rows scored NaN
NaNLists(cs) ==
    {l \in [1..MaxK -> [score : {NaN}, idx : Positions(cs)]] : Distinct(l)}
        \cup {[i \in 1..MaxK |-> Pad]}

index_search(qv, cs) == IF IsNaNVec(qv) THEN NaNLists(cs) ELSE RankedLists(cs)

----------------------------------------------------------------------------
(* The filter, lines 151-164 *)

\* Ge with > in place of >=
GeStrict(a, b) == a # NaN /\ b # NaN /\ a > b

\* score >= SIMILARITY_THRESHOLD on floats
Ge(a, b) == a # NaN /\ b # NaN /\ a >= b

\* whether cards[idx] raises IndexError
InRange(cs, idx) == -Len(cs) <= idx /\ idx < Len(cs)

\* cards[idx], negative positions counting from the end
record_at(cs, idx) == IF idx >= 0 THEN cs[idx + 1] ELSE cs[Len(cs) + idx + 1]

\* Kept without the comparison of ids
KeptWithSelf(e, cs, card) == Ge(e.score, SIMILARITY_THRESHOLD)

\* the condition of the comprehension; `and` does not evaluate cards[idx]
\* when the score is below the threshold
Kept(e, cs, card) ==
    /\ Ge(e.score, SIMILARITY_THRESHOLD)
    /\ Get(record_at(cs, e.idx), "id") # Get(card, "id")

\* lines 151-155
score_filter(cands, cs, card) ==
    IF \E i \in DOMAIN cands :
          Ge(cands[i].score, SIMILARITY_THRESHOLD) /\ ~InRange(cs, cands[i].idx)
    THEN Raised("IndexError")
    ELSE LET keep == SelectSeq(cands, LAMBDA e : Kept(e, cs, card))
         IN  Ok([i \in DOMAIN keep |->
                    [score |-> keep[i].score, card |-> record_at(cs, keep[i].idx)]])

\* matches_color without the colourless case
matches_color_plain(card, selected) ==
    \E c \in selected : c \in Identity(card)

\* lines 157-161
matches_color(card, selected) ==
    LET identity == Identity(card)
    IN  IF "C" \in selected
        THEN \/ (identity = {} /\ "C" \in selected)
             \/ \E c \in selected \ {"C"} : c \in identity
        ELSE \E c \in selected : c \in identity

Reverse(s) == [i \in DOMAIN s |-> s[Len(s) + 1 - i]]

\* color_filter without the `if selected_colors:` guard
color_filter_always(res, selected) ==
    SelectSeq(res, LAMBDA r : matches_color(r.card, selected))

\* color_filter that hands its matches back in reverse
color_filter_reversed(res, selected) ==
    IF selected # {}
    THEN Reverse(SelectSeq(res, LAMBDA r : matches_color(r.card, selected)))
    ELSE res

\* lines 163-164
color_filter(res, selected) ==
    IF selected # {}
    THEN SelectSeq(res, LAMBDA r : matches_color(r.card, selected))
    ELSE res

----------------------------------------------------------------------------
(* The script run *)

\* the checkbox states a run is started with
Selections ==
    {s \cup t : s \in SUBSET {"U", "C"}, t \in {{}, {"W", "B", "R", "G"}}}

Init ==
    /\ pc = "idle"
    /\ \E ids \in Corpora :
          /\ cache = Dataset(ids)
          /\ cards = Dataset(ids).cards
          /\ embeddings = Dataset(ids).embeddings
    /\ selected_colors = ColorSet
    /\ resolved_card = None
    /\ query_vec = <<>>
    /\ candidates = <<>>
    /\ scored = <<>>
    /\ results = <<>>
    /\ outcome = "none"
    /\ row_lookups = 0
    /\ index_queries = 0

\* lines 102-127 of a run whose `query and search_button` is false
RerunWithoutSearch(sel) ==
    /\ pc = "idle"
    /\ cards' = cache.cards
    /\ embeddings' = cache.embeddings
    /\ selected_colors' = sel
    /\ UNCHANGED <<pc, cache, resolved_card, query_vec, candidates, scored,
                   results, outcome, row_lookups, index_queries>>

\* lines 102-131 of a run with a query and the button pressed
Submit(sel) ==
    /\ pc = "idle"
    /\ cards' = cache.cards
    /\ embeddings' = cache.embeddings
    /\ selected_colors' = sel
    /\ pc' = "resolve"
    /\ outcome' = "none"
    /\ UNCHANGED <<cache, resolved_card, query_vec, candidates, scored, results,
                   row_lookups, index_queries>>

\* AfterResolve with `is None` in place of `not`
AfterResolveIsNone(opt) == IF opt = None THEN "done" ELSE "lookup"

\* where line 134 sends the run
AfterResolve(opt) == IF Falsy(opt) THEN "done" ELSE "lookup"

\* lines 133-139
Resolve(res) ==
    /\ pc = "resolve"
    /\ resolved_card' = try_get_card_text_from_name(res)
    /\ pc' = AfterResolve(resolved_card')
    /\ outcome' = IF pc' = "done" THEN "unresolved" ELSE outcome
    /\ UNCHANGED <<cards, cache, embeddings, selected_colors, query_vec,
                   candidates, scored, results, row_lookups, index_queries>>

\* the outcome an exception of lines 141-144 ends the run with
LookupOutcome(e) == IF e = "StopIteration" THEN "embedding_missing" ELSE "unexpected"

\* lines 141-148
Lookup ==
    /\ pc = "lookup"
    /\ row_lookups' = row_lookups + 1
    /\ LET r == row_of(cards, Card(resolved_card))
       IN  IF r.tag = "ok"
           THEN /\ embeddings' = DivideInPlace(embeddings, r.value)
                /\ query_vec' = embeddings'[r.value + 1]
                /\ pc' = "search"
                /\ UNCHANGED outcome
           ELSE /\ outcome' = LookupOutcome(r.value)
                /\ pc' = "done"
                /\ UNCHANGED <<embeddings, query_vec>>
    /\ UNCHANGED <<cards, cache, selected_colors, resolved_card, candidates,
                   scored, results, index_queries>>

\* line 150
Search ==
    /\ pc = "search"
    /\ \E l \in index_search(query_vec, cards) : candidates' = l
    /\ index_queries' = index_queries + 1
    /\ pc' = "filter"
    /\ UNCHANGED <<cards, cache, embeddings, selected_colors, resolved_card,
                   query_vec, scored, results, outcome, row_lookups>>

\* lines 151-193
Filter ==
    /\ pc = "filter"
    /\ LET r == score_filter(candidates, cards, Card(resolved_card))
       IN  IF r.tag = "ok"
           THEN /\ scored' = r.value
                /\ results' = color_filter(r.value, selected_colors)
                /\ outcome' = IF results' = <<>> THEN "empty" ELSE "results"
           ELSE /\ outcome' = "unexpected"
                /\ UNCHANGED <<scored, results>>
    /\ pc' = "done"
    /\ UNCHANGED <<cards, cache, embeddings, selected_colors, resolved_card,
                   query_vec, candidates, row_lookups, index_queries>>

\* the run returns: its locals are dropped, the widgets keep their state
Finish ==
    /\ pc = "done"
    /\ pc' = "idle"
    /\ cards' = cache.cards
    /\ embeddings' = cache.embeddings
    /\ resolved_card' = None
    /\ query_vec' = <<>>
    /\ candidates' = <<>>
    /\ scored' = <<>>
    /\ results' = <<>>
    /\ outcome' = "none"
    /\ row_lookups' = 0
    /\ index_queries' = 0
    /\ UNCHANGED <<cache, selected_colors>>

Next ==
    \/ \E sel \in Selections : RerunWithoutSearch(sel)
    \/ \E sel \in Selections : Submit(sel)
    \/ \E res \in Responses : Resolve(res)
    \/ Lookup
    \/ Search
    \/ Filter
    \/ Finish

Spec == Init /\ [][Next]_vars

----------------------------------------------------------------------------
(* Vocabulary of the properties *)

\* the run went through the filter and reported a result list
Succeeded == pc = "done" /\ outcome \in {"results", "empty"}

\* the resolver has answered in this run
Resolved == pc \notin {"idle", "resolve"}

QueryCard == Card(resolved_card)

ClearsFloor(score) == score # NaN /\ score >= SIMILARITY_THRESHOLD

\* the candidate at place i of the list of the index, as a (score, card) pair
AsResult(i) ==
    [score |-> candidates[i].score,
     card  |-> IF InRange(cards, candidates[i].idx)
               THEN record_at(cards, candidates[i].idx)
               ELSE <<>>]

IsQueryCard(card) == Get(card, "id") = Get(QueryCard, "id")

InResults(r) == \E j \in DOMAIN results : results[j] = r

\* the colour predicate as section 4.4 words it
PassesColors(card, allowed) ==
    \/ Identity(card) \cap allowed # {}
    \/ ("C" \in allowed /\ Identity(card) = {})

\* a is b with some places left out, the others in their order
IsSubsequence(a, b) ==
    \E f \in [DOMAIN a -> DOMAIN b] :
        /\ \A i, j \in DOMAIN a : i < j => f[i] < f[j]
        /\ \A i \in DOMAIN a : a[i] = b[f[i]]

Input == [i \in DOMAIN candidates |-> AsResult(i)]

----------------------------------------------------------------------------
(* The properties *)

\* C1: the result list of a search holds no card whose id is the id of the
\* resolved query card, after the first pass and after the colour pass.
C1_SelfExclusion ==
    Succeeded =>
        /\ \A j \in DOMAIN scored : ~IsQueryCard(scored[j].card)
        /\ \A j \in DOMAIN results : ~IsQueryCard(results[j].card)

\* a search that reported results although the index ranked the query card
\* itself above the floor
C1_Witness ==
    /\ pc = "done"
    /\ outcome = "results"
    /\ \E i \in DOMAIN candidates :
          ClearsFloor(candidates[i].score) /\ IsQueryCard(AsResult(i).card)

C4_UnresolvedStops ==
    (Resolved /\ Falsy(resolved_card)) =>
        /\ pc = "done"
        /\ outcome = "unresolved"
        /\ row_lookups = 0
        /\ index_queries = 0
        /\ candidates = <<>>

\* a run whose lookup failed or matched nothing
C4_Witness ==
    /\ pc = "done"
    /\ outcome = "unresolved"
    /\ resolved_card = None

\* the resolved card has an id and no record of the corpus has that id
NoRecord ==
    /\ Resolved
    /\ ~Falsy(resolved_card)
    /\ "id" \in DOMAIN QueryCard
    /\ \A i \in DOMAIN cards : cards[i].id # QueryCard.id

\* C5: a resolved card whose id is the id of no record ends the search with
\* EmbeddingNotFound, which is not Unresolved; the index is not queried and
\* no result list is produced.
C5_EmbeddingNotFound ==
    (NoRecord /\ pc # "lookup") =>
        /\ pc = "done"
        /\ outcome = "embedding_missing"
        /\ index_queries = 0
        /\ candidates = <<>>
        /\ results = <<>>

\* a card resolved by name that a corpus of other cards does not hold
C5_Witness ==
    /\ NoRecord
    /\ pc = "done"
    /\ row_lookups = 1
    /\ cards # <<>>

\* C6: every search ends in one of the outcomes that keep their kind:
\* results, empty, Unresolved, EmbeddingNotFound or DataIntegrityError.
C6_ExplicitOutcome ==
    pc = "done" =>
        outcome \in {"results", "empty", "unresolved", "embedding_missing",
                     "data_integrity"}

\* C7: with the colourless marker selected, every colourless candidate that
\* clears the floor and is not the query card is kept, and a kept card with
\* a nonempty color_identity shares a symbol with the selection.
C7_Colorless ==
    (Succeeded /\ "C" \in selected_colors) =>
        /\ \A i \in DOMAIN candidates :
              ( /\ ClearsFloor(candidates[i].score)
                /\ ~IsQueryCard(AsResult(i).card)
                /\ Identity(AsResult(i).card) = {} )
                  => InResults(AsResult(i))
        /\ \A j \in DOMAIN results :
              Identity(results[j].card) # {}
                  => Identity(results[j].card) \cap selected_colors # {}

\* colourless and another colour selected: a colourless card is kept and a
\* coloured card outside the selection is dropped
C7_Witness ==
    /\ Succeeded
    /\ "C" \in selected_colors
    /\ selected_colors # {"C"}
    /\ \E j \in DOMAIN results : Identity(results[j].card) = {}
    /\ \E j \in DOMAIN scored :
          /\ Identity(scored[j].card) # {}
          /\ ~InResults(scored[j])

\* C8: no result has a score below 0.4, and every candidate with a score of
\* at least 0.4 that is not the query card and passes the colour predicate
\* is in the results.
C8_ScoreFloor ==
    Succeeded =>
        /\ \A j \in DOMAIN results : ClearsFloor(results[j].score)
        /\ \A i \in DOMAIN candidates :
              ( /\ ClearsFloor(candidates[i].score)
                /\ ~IsQueryCard(AsResult(i).card)
                /\ PassesColors(AsResult(i).card, selected_colors) )
                  => InResults(AsResult(i))

\* a candidate at exactly 0.4 is kept and one below it is dropped
C8_Witness ==
    /\ Succeeded
    /\ \E j \in DOMAIN results : results[j].score = SIMILARITY_THRESHOLD
    /\ \E i \in DOMAIN candidates :
          /\ candidates[i] # Pad
          /\ candidates[i].score < SIMILARITY_THRESHOLD
          /\ PassesColors(AsResult(i).card, selected_colors)
          /\ ~InResults(AsResult(i))

\* C9: the first pass yields a subsequence of the list of the index, in its
\* order, and the colour pass a subsequence of the first pass.
C9_Subsequence ==
    Succeeded =>
        /\ IsSubsequence(scored, Input)
        /\ IsSubsequence(results, scored)
        /\ IsSubsequence(results, Input)

\* two candidates passed the first pass and the colour pass kept the second
\* of them only
C9_Witness ==
    /\ Succeeded
    /\ Len(scored) = 2
    /\ scored[1].score > scored[2].score
    /\ results = <<scored[2]>>

\* the embedding row of the query card, as loaded, has norm zero
ZeroNormQuery ==
    /\ Resolved
    /\ ~Falsy(resolved_card)
    /\ row_of(cache.cards, QueryCard).tag = "ok"
    /\ Norm(cache.embeddings[row_of(cache.cards, QueryCard).value + 1]) = 0

\* C10: a query card whose embedding row has norm zero makes the search
\* report a data-integrity error; the index is not queried.
C10_ZeroNormReported ==
    (ZeroNormQuery /\ pc # "lookup") =>
        /\ index_queries = 0
        /\ pc = "done" => outcome = "data_integrity"

====
